---- MODULE Spec2Model ----
(***************************************************************************)
(* A model of the zone store of partim/domain (src/src/server/zones.rs):   *)
(* the label-indexed tree Node / NodeChildren, RRset and Records, Zone     *)
(* with its build and query operations, and AuthoritativeZones with        *)
(* add_zone, find and query.                                               *)
(*                                                                         *)
(* Conventions.                                                            *)
(*   Option<T>    None is <<>>, Some(x) is <<x>>.                           *)
(*   Result<T,()> a record with a field ok and the state the call leaves.  *)
(*   &mut Node    a reference into a tree is the sequence of labelettes    *)
(*                leading from the tree's root to the node.                *)
(*   iterators    the sequence of the items still to be yielded, in the    *)
(*                iterator's own order: next() takes the head, next_back() *)
(*                takes the last item.                                     *)
(***************************************************************************)
EXTENDS Integers, Sequences, FiniteSets, TLC

VARIABLES
    in_root,    \* AuthoritativeZones.in_root
    roots,      \* AuthoritativeZones.roots
    zone,       \* a Zone under construction (the receiver of add_record / add_cut)
    last,       \* the last call: its arguments, its result, the state before it
    installed,  \* history: <<class, name>> -> the zone a successful add_zone got
    inserted,   \* history: <<relname, rtype>> -> the successful insertions, in order
    cuts,       \* history: the relative names a successful add_cut was given
    nops,       \* number of calls made so far
    tree,       \* a Node<V> grown with build_child
    reader,     \* a Reader over one master file
    source,     \* history: the file and the origin that Reader started with
    fs,         \* the master files on disk: path -> entries
    stack,      \* FileReaderIter.stack
    yielded,    \* history: what the reader or iterator has yielded, in order
    pushes,     \* history: the includes FileReaderIter has opened
    pops        \* history: the includes FileReaderIter has finished

storeVars == <<in_root, roots, installed>>
zoneVars == <<zone, inserted, cuts>>
treeVars == <<tree>>
readerVars == <<reader, source>>
iterVars == <<fs, stack, yielded, pushes, pops>>

vars == <<storeVars, zoneVars, last, nops, treeVars, readerVars, iterVars>>

-----------------------------------------------------------------------------
(* Option *)

None == <<>>
Some(x) == <<x>>
is_some(o) == Len(o) > 0
is_none(o) == Len(o) = 0
unwrap(o) == o[1]

RECURSIVE Reverse(_)
Reverse(s) == IF s = <<>> THEN <<>> ELSE Append(Reverse(Tail(s)), Head(s))

Front(s) == SubSeq(s, 1, Len(s) - 1)
Last(s) == s[Len(s)]

EmptyMap == <<>>
MapPut(f, k, v) == (k :> v) @@ f

-----------------------------------------------------------------------------
(* Labelettes and names (bits::name) *)

Normal(bytes) == [kind |-> "Normal", bytes |-> bytes, bit |-> FALSE]
Bit(bit) == [kind |-> "Bit", bytes |-> "", bit |-> bit]
RootLabel == Normal("")
Wildcard == Normal("*")
is_root(labelette) == labelette.kind = "Normal" /\ labelette.bytes = ""

\* DName::labelettes(): the labelettes of a name in display order, root last
\* for an absolute name. A name is kept as that sequence.
labelettes(name) == name

\* An absolute name from its labelettes below the root.
Absolute(labels) == Append(labels, RootLabel)

\* DName::strip_suffix / concatenation of a relative name and an absolute one.
Concat(rel, name) == rel \o name

-----------------------------------------------------------------------------
(* Record data (rdata::MasterRecordData): a tagged value carrying its rtype *)

MasterRecordData(rt, rd) == [rtype |-> rt, rd |-> rd]
rtype_of(data) == data.rtype

-----------------------------------------------------------------------------
(* Node<V> and NodeChildren<V> *)

NodeChildren_new == [normal |-> EmptyMap, binary |-> <<None, None>>]

Node_new(value) == [value |-> value, children |-> NodeChildren_new]

bit_index(bit) == IF bit THEN 1 ELSE 0

NodeChildren_get(self, labelette) ==
    IF labelette.kind = "Normal"
    THEN IF labelette.bytes \in DOMAIN self.normal
         THEN Some(self.normal[labelette.bytes])
         ELSE None
    ELSE self.binary[bit_index(labelette.bit) + 1]

\* build: the children after the call. `value` is what insertop() returns (both
\* callers pass a closure returning Ok(None), so no call fails). The reference
\* the code returns is the child at `labelette`.
NodeChildren_build(self, labelette, value) ==
    IF labelette.kind = "Normal"
    THEN IF labelette.bytes \in DOMAIN self.normal
         THEN self
         ELSE [self EXCEPT !.normal = MapPut(@, labelette.bytes, Node_new(value))]
    ELSE IF is_none(self.binary[bit_index(labelette.bit) + 1])
         THEN [self EXCEPT !.binary[bit_index(labelette.bit) + 1] =
                               Some(Node_new(value))]
         ELSE self

\* Stores `child` in the slot of `labelette` (a write through the &mut Node
\* that build returned).
NodeChildren_put(self, labelette, child) ==
    IF labelette.kind = "Normal"
    THEN [self EXCEPT !.normal = MapPut(@, labelette.bytes, child)]
    ELSE [self EXCEPT !.binary[bit_index(labelette.bit) + 1] = Some(child)]

Node_get_child(self, labelette) == NodeChildren_get(self.children, labelette)

Node_build_child(self, labelette, value) ==
    [self EXCEPT !.children = NodeChildren_build(@, labelette, value)]

\* Whether `ref` leads to a node of the tree.
RECURSIVE Node_has(_, _)
Node_has(self, ref) ==
    IF ref = <<>> THEN TRUE
    ELSE LET child == Node_get_child(self, Head(ref))
         IN  IF is_none(child) THEN FALSE
             ELSE Node_has(unwrap(child), Tail(ref))

\* The node a reference points to.
RECURSIVE Node_at(_, _)
Node_at(self, ref) ==
    IF ref = <<>> THEN self
    ELSE Node_at(unwrap(Node_get_child(self, Head(ref))), Tail(ref))

\* The tree after the node a reference points to has been replaced.
RECURSIVE Node_replace(_, _, _)
Node_replace(self, ref, node) ==
    IF ref = <<>> THEN node
    ELSE [self EXCEPT !.children =
             NodeChildren_put(@, Head(ref),
                 Node_replace(unwrap(Node_get_child(self, Head(ref))),
                              Tail(ref), node))]

\* *node.value_mut() = value, through a reference.
Node_set_value(self, ref, value) ==
    Node_replace(self, ref, [Node_at(self, ref) EXCEPT !.value = value])

\* Node::build_node(iter, insertop) with insertop = |_| Ok(None): takes the
\* labelettes from the BACK of iter (iter.next_back()), builds the child and
\* recurses into it. The result is the tree after the call and the reference
\* to the terminal node.
RECURSIVE Node_build_node(_, _)
Node_build_node(self, iter) ==
    IF iter # <<>>
    THEN LET labelette == Last(iter)
             children == NodeChildren_build(self.children, labelette, None)
             child == unwrap(NodeChildren_get(children, labelette))
             rest == Node_build_node(child, Front(iter))
         IN  [node |-> [self EXCEPT !.children =
                           NodeChildren_put(children, labelette, rest.node)],
              ref |-> <<labelette>> \o rest.ref]
    ELSE [node |-> self, ref |-> <<>>]

-----------------------------------------------------------------------------
(* RRset<D> *)

RRset_new == [ttl |-> 0, data |-> <<>>]
RRset_ttl(self) == self.ttl
RRset_set_ttl(self, ttl) == [self EXCEPT !.ttl = ttl]

\* A push that drops an rdata the RRset already holds.
RRset_push_Dedup(self, data) ==
    IF \E i \in DOMAIN self.data : self.data[i] = data
    THEN self
    ELSE [self EXCEPT !.data = Append(@, data)]

RRset_push(self, data) == [self EXCEPT !.data = Append(@, data)]

-----------------------------------------------------------------------------
(* Records *)

Records_new == [rrsets |-> EmptyMap]

\* self.rrsets.entry(rtype).or_insert_with(RRset::new)
Records_entry(self, rtype) ==
    IF rtype \in DOMAIN self.rrsets
    THEN self
    ELSE [self EXCEPT !.rrsets = MapPut(@, rtype, RRset_new)]

\* Records::add_record with the push moved before the TTL check.
Records_add_record_PushFirst(self, ttl, data) ==
    LET entered == Records_entry(self, rtype_of(data))
        rrset == RRset_push(entered.rrsets[rtype_of(data)], data)
    IN  IF RRset_ttl(rrset) = 0
        THEN [ok |-> TRUE,
              records |-> [entered EXCEPT !.rrsets[rtype_of(data)] =
                              RRset_set_ttl(rrset, ttl)]]
        ELSE [ok |-> RRset_ttl(rrset) = ttl,
              records |-> [entered EXCEPT !.rrsets[rtype_of(data)] = rrset]]

\* Records::add_record: the result and the Records the call leaves.
Records_add_record(self, ttl, data) ==
    LET entered == Records_entry(self, rtype_of(data))
        rrset == entered.rrsets[rtype_of(data)]
    IN  IF RRset_ttl(rrset) = 0
        THEN [ok |-> TRUE,
              records |-> [entered EXCEPT !.rrsets[rtype_of(data)] =
                              RRset_push(RRset_set_ttl(rrset, ttl), data)]]
        ELSE IF RRset_ttl(rrset) # ttl
        THEN [ok |-> FALSE, records |-> entered]
        ELSE [ok |-> TRUE,
              records |-> [entered EXCEPT !.rrsets[rtype_of(data)] =
                              RRset_push(rrset, data)]]

Records_get(self, rtype) ==
    IF rtype \in DOMAIN self.rrsets THEN Some(self.rrsets[rtype]) ELSE None

-----------------------------------------------------------------------------
(* Cut and Entry *)

Cut_new == [ns |-> RRset_new, glue |-> <<>>]

Authoritative(a) == [tag |-> "Authoritative", val |-> a]
Cut(c) == [tag |-> "Cut", val |-> c]

-----------------------------------------------------------------------------
(* Zone *)

Zone_new == [data |-> Node_new(None)]

\* Zone::build_node: for each labelette of name.labelettes().rev(), in that
\* order, build the child of the cursor and move the cursor to it.
RECURSIVE Zone_build_loop(_, _, _)
Zone_build_loop(data, node, iter) ==
    IF iter = <<>>
    THEN [data |-> data, ref |-> node]
    ELSE LET ltte == Head(iter)
             built == Node_build_child(Node_at(data, node), ltte, None)
         IN  Zone_build_loop(Node_replace(data, node, built),
                             Append(node, ltte), Tail(iter))

Zone_build_node(self, name) ==
    Zone_build_loop(self.data, <<>>, Reverse(labelettes(name)))

\* Zone::add_record: the result and the zone the call leaves.
Zone_add_record(self, name, ttl, data) ==
    LET built == Zone_build_node(self, name)
        node == built.ref
        promoted == IF is_none(Node_at(built.data, node).value)
                    THEN Node_set_value(built.data, node,
                                        Some(Authoritative(Records_new)))
                    ELSE built.data
        entry == unwrap(Node_at(promoted, node).value)
    IN  IF entry.tag = "Authoritative"
        THEN LET res == Records_add_record(entry.val, ttl, data)
             IN  [ok |-> res.ok,
                  zone |-> [data |-> Node_set_value(promoted, node,
                                        Some(Authoritative(res.records)))]]
        ELSE [ok |-> FALSE, zone |-> [data |-> promoted]]

\* Zone::add_cut that installs the cut whatever the node holds.
Zone_add_cut_Overwrite(self, name) ==
    LET built == Zone_build_node(self, name)
    IN  [ok |-> TRUE,
         zone |-> [data |-> Node_set_value(built.data, built.ref,
                                           Some(Cut(Cut_new)))]]

\* Zone::add_cut that fails on an Authoritative node after it has put the cut
\* in its place.
Zone_add_cut_ReplaceThenFail(self, name) ==
    LET built == Zone_build_node(self, name)
        node == built.ref
        replaced == Node_set_value(built.data, node, Some(Cut(Cut_new)))
    IN  IF /\ is_some(Node_at(built.data, node).value)
           /\ unwrap(Node_at(built.data, node).value).tag = "Authoritative"
        THEN [ok |-> FALSE, zone |-> [data |-> replaced]]
        ELSE [ok |-> TRUE, zone |-> [data |-> replaced]]

\* Zone::add_cut: the result and the zone the call leaves.
Zone_add_cut(self, name) ==
    LET built == Zone_build_node(self, name)
        node == built.ref
        promoted == IF is_none(Node_at(built.data, node).value)
                    THEN Node_set_value(built.data, node, Some(Cut(Cut_new)))
                    ELSE built.data
        entry == unwrap(Node_at(promoted, node).value)
    IN  IF entry.tag = "Authoritative"
        THEN [ok |-> FALSE, zone |-> [data |-> promoted]]
        ELSE [ok |-> TRUE, zone |-> [data |-> promoted]]

\* The match on *node.value() that ends Zone::query.
Zone_answer(node, rtype) ==
    IF is_none(node.value)
    THEN Some(Authoritative(None))
    ELSE IF unwrap(node.value).tag = "Authoritative"
    THEN Some(Authoritative(Records_get(unwrap(node.value).val, rtype)))
    ELSE Some(Cut(unwrap(node.value).val))

\* Zone::query without the wildcard arm: a missing child ends the query.
RECURSIVE Zone_query_loop_NoWildcard(_, _, _)
Zone_query_loop_NoWildcard(node, iter, rtype) ==
    IF iter = <<>>
    THEN Zone_answer(node, rtype)
    ELSE LET child == Node_get_child(node, Head(iter))
         IN  IF is_some(child)
             THEN Zone_query_loop_NoWildcard(unwrap(child), Tail(iter), rtype)
             ELSE None

\* Zone::query that takes a child without an entry for a missing child, and
\* answers a name without an entry from its wildcard child.
RECURSIVE Zone_query_loop_WildcardForEmpty(_, _, _)
Zone_query_loop_WildcardForEmpty(node, iter, rtype) ==
    LET wild == Node_get_child(node, Wildcard)
    IN  IF iter = <<>>
        THEN IF is_none(node.value) /\ is_some(wild)
             THEN Zone_answer(unwrap(wild), rtype)
             ELSE Zone_answer(node, rtype)
        ELSE LET child == Node_get_child(node, Head(iter))
             IN  IF is_some(child) /\ (is_some(unwrap(child).value) \/ is_none(wild))
                 THEN Zone_query_loop_WildcardForEmpty(unwrap(child), Tail(iter),
                                                       rtype)
                 ELSE IF is_some(wild)
                      THEN Zone_answer(unwrap(wild), rtype)
                      ELSE None

\* Zone::query that goes on below the `*` child with the labelettes left.
RECURSIVE Zone_query_loop_WildcardContinues(_, _, _)
Zone_query_loop_WildcardContinues(node, iter, rtype) ==
    IF iter = <<>>
    THEN Zone_answer(node, rtype)
    ELSE LET child == Node_get_child(node, Head(iter))
         IN  IF is_some(child)
             THEN Zone_query_loop_WildcardContinues(unwrap(child), Tail(iter), rtype)
             ELSE LET wild == Node_get_child(node, Wildcard)
                  IN  IF is_some(wild)
                      THEN Zone_query_loop_WildcardContinues(unwrap(wild),
                                                             Tail(iter), rtype)
                      ELSE None

\* Zone::query: iter yields the labelettes root-first.
RECURSIVE Zone_query_loop(_, _, _)
Zone_query_loop(node, iter, rtype) ==
    IF iter = <<>>
    THEN Zone_answer(node, rtype)
    ELSE LET child == Node_get_child(node, Head(iter))
         IN  IF is_some(child)
             THEN Zone_query_loop(unwrap(child), Tail(iter), rtype)
             ELSE LET wild == Node_get_child(node, Wildcard)
                  IN  IF is_some(wild)
                      THEN Zone_answer(unwrap(wild), rtype)
                      ELSE None

Zone_query(self, iter, rtype) == Zone_query_loop(self.data, iter, rtype)

-----------------------------------------------------------------------------
(* AuthoritativeZones: self is [in_root, roots] *)

AuthoritativeZones_new == [in_root |-> Node_new(None), roots |-> EmptyMap]

\* A root that gives the tree of IN for every class.
root_SharedTree(self, class) == Some(self.in_root)

root(self, class) ==
    IF class = "In" THEN Some(self.in_root)
    ELSE IF class \in DOMAIN self.roots THEN Some(self.roots[class])
    ELSE None

\* root_mut: self after the entry of `class` has been created if missing.
root_mut(self, class) ==
    IF class = "In" THEN self
    ELSE IF class \in DOMAIN self.roots THEN self
    ELSE [self EXCEPT !.roots = MapPut(@, class, Node_new(None))]

\* Writes the root node of `class` back (a write through root_mut's &mut).
set_root(self, class, node) ==
    IF class = "In" THEN [self EXCEPT !.in_root = node]
    ELSE [self EXCEPT !.roots = MapPut(@, class, node)]

\* AuthoritativeZones::add_zone: the result and the store the call leaves.
add_zone(self, name, class, z) ==
    LET iter == Tail(Reverse(labelettes(name)))
        entered == root_mut(self, class)
        built == Node_build_node(unwrap(root(entered, class)), iter)
    IN  IF is_some(Node_at(built.node, built.ref).value)
        THEN [ok |-> FALSE, self |-> set_root(entered, class, built.node)]
        ELSE [ok |-> TRUE,
              self |-> set_root(entered, class,
                          Node_set_value(built.node, built.ref, Some(z)))]

\* The loop of AuthoritativeZones::find.
RECURSIVE find_loop(_, _, _)
find_loop(node, iter, apex) ==
    LET apex1 == IF is_some(node.value)
                 THEN Some([zone |-> unwrap(node.value), iter |-> iter])
                 ELSE apex
    IN  IF iter = <<>>
        THEN apex1
        ELSE LET child == Node_get_child(node, Head(iter))
             IN  IF is_none(child)
                 THEN apex1
                 ELSE find_loop(unwrap(child), Tail(iter), apex1)

\* AuthoritativeZones::find: iter is name.labelettes().rev(), root first.
find(self, class, iter) ==
    IF is_none(root(self, class))
    THEN None
    ELSE find_loop(unwrap(root(self, class)), Tail(iter), None)

Question(qname, qtype, qclass) ==
    [qname |-> qname, qtype |-> qtype, qclass |-> qclass]

\* AuthoritativeZones::query
query(self, question) ==
    LET found == find(self, question.qclass,
                      Reverse(labelettes(question.qname)))
    IN  IF is_none(found)
        THEN None
        ELSE Zone_query(unwrap(found).zone, unwrap(found).iter, question.qtype)

\* DName::strip_suffix: the owner relative to `name`, or an error when `name`
\* is not a suffix of the owner.
strip_suffix(owner, name) ==
    IF /\ Len(name) <= Len(owner)
       /\ SubSeq(owner, Len(owner) - Len(name) + 1, Len(owner)) = name
    THEN [ok |-> TRUE, name |-> SubSeq(owner, 1, Len(owner) - Len(name))]
    ELSE [ok |-> FALSE, name |-> <<>>]

\* master::MasterRecord
MasterRecord(owner, class, ttl, rdata) ==
    [owner |-> owner, class |-> class, ttl |-> ttl, rdata |-> rdata]

\* The items of a record stream: Ok(record) and Err(err).
Ok(x) == [ok |-> TRUE, val |-> x]
Err(e) == [ok |-> FALSE, val |-> e]

\* The loop of load_zone over the record stream: the zone and the errs it
\* leaves. A record whose owner is outside the zone, or that add_record
\* refuses, is skipped (the two `continue`s); only Err items reach errs.
RECURSIVE load_zone_loop(_, _, _, _)
load_zone_loop(z, errs, name, records) ==
    IF records = <<>>
    THEN [zone |-> z, errs |-> errs]
    ELSE LET record == Head(records)
         IN  IF record.ok
             THEN LET stripped == strip_suffix(record.val.owner, name)
                  IN  IF ~stripped.ok
                      THEN load_zone_loop(z, errs, name, Tail(records))
                      ELSE load_zone_loop(
                               Zone_add_record(z, stripped.name, record.val.ttl,
                                               record.val.rdata).zone,
                               errs, name, Tail(records))
             ELSE load_zone_loop(z, Append(errs, record.val), name, Tail(records))

\* AuthoritativeZones::load_zone: the result and the store the call leaves.
\* load_zone without the errs.is_empty() test: the zone is installed whatever
\* the reader reported.
load_zone_IgnoreErrs(self, name, class, records) ==
    add_zone(self, name, class, load_zone_loop(Zone_new, <<>>, name, records).zone)

load_zone(self, name, class, records) ==
    LET loaded == load_zone_loop(Zone_new, <<>>, name, records)
    IN  IF loaded.errs = <<>>
        THEN add_zone(self, name, class, loaded.zone)
        ELSE [ok |-> FALSE, self |-> self]

-----------------------------------------------------------------------------
(* Master-file entries (master::entry) *)

\* What the scanner reads for one entry of a master file, before names, class
\* and TTL are resolved. The owner of a record line is absolute, @, relative
\* or missing; its class and TTL are Options.
OwnerAbsolute(name) == [form |-> "absolute", name |-> name]
OwnerAt == [form |-> "at", name |-> <<>>]
OwnerRelative(labels) == [form |-> "relative", name |-> labels]
OwnerMissing == [form |-> "missing", name |-> <<>>]

RawOrigin(name) == [kind |-> "Origin", name |-> name]
RawTtl(ttl) == [kind |-> "Ttl", ttl |-> ttl]
RawInclude(path, origin) == [kind |-> "Include", path |-> path, origin |-> origin]
RawControl == [kind |-> "Control"]
RawBlank == [kind |-> "Blank"]
RawRecord(owner, class, ttl, rdata) ==
    [kind |-> "Record", owner |-> owner, class |-> class, ttl |-> ttl,
     rdata |-> rdata]
RawBad == [kind |-> "Bad"]

\* The owner of a record line: absolute as written, @ the origin, relative
\* suffixed with the origin (an error without origin), missing the last owner.
ResolveOwner(owner, last_owner, origin) ==
    CASE owner.form = "absolute" -> Ok(owner.name)
      [] owner.form = "at" ->
            IF is_some(origin) THEN Ok(unwrap(origin)) ELSE Err("no origin")
      [] owner.form = "relative" ->
            IF is_some(origin) THEN Ok(Concat(owner.name, unwrap(origin)))
            ELSE Err("no origin")
      [] owner.form = "missing" ->
            IF is_some(last_owner) THEN Ok(unwrap(last_owner))
            ELSE Err("no owner")

\* Entry::scan(scanner, last_owner, last_class, origin, default_ttl): the next
\* entry and the scanner after it. The scanner is the sequence of entries not
\* yet read; at its end the result is Ok(None).
Entry_scan(scanner, last_owner, last_class, origin, default_ttl) ==
    IF scanner = <<>>
    THEN [res |-> Ok(None), scanner |-> scanner]
    ELSE LET raw == Head(scanner)
             rest == Tail(scanner)
         IN  CASE raw.kind = "Bad" -> [res |-> Err("syntax"), scanner |-> rest]
               [] raw.kind = "Record" ->
                     LET owner == ResolveOwner(raw.owner, last_owner, origin)
                         class == IF is_some(raw.class) THEN unwrap(raw.class)
                                  ELSE IF is_some(last_class) THEN unwrap(last_class)
                                  ELSE "In"
                         ttl == IF is_some(raw.ttl) THEN raw.ttl ELSE default_ttl
                     IN  IF ~owner.ok
                         THEN [res |-> owner, scanner |-> rest]
                         ELSE IF is_none(ttl)
                         THEN [res |-> Err("no ttl"), scanner |-> rest]
                         ELSE [res |-> Ok(Some([kind |-> "Record",
                                       record |-> MasterRecord(owner.val, class,
                                                      unwrap(ttl), raw.rdata)])),
                               scanner |-> rest]
               [] OTHER -> [res |-> Ok(Some(raw)), scanner |-> rest]

-----------------------------------------------------------------------------
(* Reader<S> (master::reader) *)

Reader_new(scanner) ==
    [scanner |-> Some(scanner), origin |-> None, ttl |-> None, last |-> None]

Reader_set_origin(self, origin) == [self EXCEPT !.origin = origin]

Reader_last_owner(self) ==
    IF is_some(self.last) THEN Some(unwrap(self.last)[1]) ELSE None

Reader_last_class(self) ==
    IF is_some(self.last) THEN Some(unwrap(self.last)[2]) ELSE None

\* next_entry: the entry read and the reader with its scanner advanced.
Reader_next_entry(self) ==
    IF is_some(self.scanner)
    THEN LET scanned == Entry_scan(unwrap(self.scanner), Reader_last_owner(self),
                                   Reader_last_class(self), self.origin, self.ttl)
         IN  [res |-> scanned.res,
              self |-> [self EXCEPT !.scanner = Some(scanned.scanner)]]
    ELSE [res |-> Ok(None), self |-> self]

ReaderItem_Record(record) == [kind |-> "Record", record |-> record]
ReaderItem_Include(path, origin) ==
    [kind |-> "Include", path |-> path, origin |-> origin]

\* next_record with the scanner left in place after an error.
RECURSIVE Reader_next_record_KeepScanner(_)
Reader_next_record_KeepScanner(self) ==
    LET entry == Reader_next_entry(self)
        res == entry.res
        after == entry.self
    IN  IF ~res.ok THEN [res |-> res, self |-> after]
        ELSE IF is_none(res.val) THEN [res |-> Ok(None), self |-> after]
        ELSE LET e == unwrap(res.val)
             IN  CASE e.kind = "Origin" ->
                        Reader_next_record_KeepScanner(
                            [after EXCEPT !.origin = Some(e.name)])
                   [] e.kind = "Include" ->
                        [res |-> Ok(Some(ReaderItem_Include(e.path, e.origin))),
                         self |-> after]
                   [] e.kind = "Ttl" ->
                        Reader_next_record_KeepScanner(
                            [after EXCEPT !.ttl = Some(e.ttl)])
                   [] e.kind = "Record" ->
                        [res |-> Ok(Some(ReaderItem_Record(e.record))),
                         self |-> [after EXCEPT !.last =
                                      Some(<<e.record.owner, e.record.class>>)]]
                   [] OTHER -> Reader_next_record_KeepScanner(after)

\* next_record with the default TTL forgotten at every entry that is skipped
\* (unknown control and blank entries).
RECURSIVE Reader_next_record_SkipForgetsTtl(_)
Reader_next_record_SkipForgetsTtl(self) ==
    LET entry == Reader_next_entry(self)
        res == entry.res
        after == entry.self
    IN  IF ~res.ok THEN [res |-> res, self |-> [after EXCEPT !.scanner = None]]
        ELSE IF is_none(res.val) THEN [res |-> Ok(None), self |-> after]
        ELSE LET e == unwrap(res.val)
             IN  CASE e.kind = "Origin" ->
                        Reader_next_record_SkipForgetsTtl(
                            [after EXCEPT !.origin = Some(e.name)])
                   [] e.kind = "Include" ->
                        [res |-> Ok(Some(ReaderItem_Include(e.path, e.origin))),
                         self |-> after]
                   [] e.kind = "Ttl" ->
                        Reader_next_record_SkipForgetsTtl(
                            [after EXCEPT !.ttl = Some(e.ttl)])
                   [] e.kind = "Record" ->
                        [res |-> Ok(Some(ReaderItem_Record(e.record))),
                         self |-> [after EXCEPT !.last =
                                      Some(<<e.record.owner, e.record.class>>)]]
                   [] OTHER -> Reader_next_record_SkipForgetsTtl(
                                   [after EXCEPT !.ttl = None])

\* next_record: the loop over next_entry. The result is the ScanResult and the
\* reader after the call.
RECURSIVE Reader_next_record(_)
Reader_next_record(self) ==
    LET entry == Reader_next_entry(self)
        res == entry.res
        after == entry.self
    IN  IF ~res.ok THEN [res |-> res, self |-> [after EXCEPT !.scanner = None]]
        ELSE IF is_none(res.val) THEN [res |-> Ok(None), self |-> after]
        ELSE LET e == unwrap(res.val)
             IN  CASE e.kind = "Origin" ->
                        Reader_next_record([after EXCEPT !.origin = Some(e.name)])
                   [] e.kind = "Include" ->
                        [res |-> Ok(Some(ReaderItem_Include(e.path, e.origin))),
                         self |-> after]
                   [] e.kind = "Ttl" ->
                        Reader_next_record([after EXCEPT !.ttl = Some(e.ttl)])
                   [] e.kind = "Record" ->
                        [res |-> Ok(Some(ReaderItem_Record(e.record))),
                         self |-> [after EXCEPT !.last =
                                      Some(<<e.record.owner, e.record.class>>)]]
                   [] OTHER -> Reader_next_record(after)

-----------------------------------------------------------------------------
(* FileReaderIter (master::reader) *)

\* A path is the sequence of its components; "/" as first component makes it
\* absolute. Path::parent() drops the last component, Path::join(rel) appends
\* a relative path and gives `rel` itself when it is absolute.
Path_parent(path) == IF path = <<>> THEN None ELSE Some(Front(path))
Path_join(dir, rel) == IF rel # <<>> /\ rel[1] = "/" THEN rel ELSE dir \o rel

\* FileReader::open(path) on the files `files`: a Reader at the start of the
\* file, or the io::Error of a missing file.
FileReader_open(files, path) ==
    IF path \in DOMAIN files THEN Ok(Reader_new(files[path]))
    ELSE Err("not found")

FileReaderError_new(path, error) == [path |-> path, error |-> error]

FileReaderError_new_other(path, error) == FileReaderError_new(path, error)

\* FileReaderIter::new(path): the stack with the top file, or the io::Error.
FileReaderIter_new(files, path) ==
    LET file == FileReader_open(files, path)
    IN  IF file.ok THEN Ok(<<<<path, file.val>>>>) ELSE file

\* The include directory taken from the top-level file instead of the file on
\* top of the stack.
IncludeDir_TopLevel(stk) == unwrap(Path_parent(stk[1][1]))

\* name.parent().unwrap() with name the path of the file on top of the stack.
IncludeDir(stk) == unwrap(Path_parent(Last(stk)[1]))

\* A push that replaces the including file by the included one.
StackPush_Replace(stk, path, rdr) == Append(Front(stk), <<path, rdr>>)

\* A push that puts the included file on the stack twice.
StackPush_Twice(stk, path, rdr) == Append(Append(stk, <<path, rdr>>), <<path, rdr>>)

\* self.stack.push((path, reader))
StackPush(stk, path, rdr) == Append(stk, <<path, rdr>>)

\* A pop that hands the included file's origin, TTL and last owner on to the
\* including file.
StackPop_CarryState(stk) ==
    IF Len(stk) < 2 THEN Front(stk)
    ELSE [Front(stk) EXCEPT ![Len(stk) - 1][2] =
             [@ EXCEPT !.origin = Last(stk)[2].origin,
                       !.ttl = Last(stk)[2].ttl,
                       !.last = Last(stk)[2].last]]

\* self.stack.pop().unwrap()
StackPop(stk) == Front(stk)

\* A clear that drops only the file that failed.
StackClear_TopOnly(stk) == Front(stk)

\* self.stack.clear()
StackClear(stk) == <<>>

\* The element of a set of one element.
TheOne(S) == CHOOSE x \in S : TRUE

\* FileReaderIter::next(): the loop over the stack. The result is the item
\* returned, the stack after the call, and the pushes and pops made on the
\* way: a push as the including file's path, the Include item, the stack
\* element pushed, the stack depth after it and the including reader; a pop as
\* the depth before it, the reader popped, the reader below it after the pop,
\* and the number of pushes made so far.
RECURSIVE FileReaderIter_next(_, _, _, _)
RECURSIVE FileReaderIter_next_match(_, _, _, _, _)

\* The two matches of the loop body, on `read`, what reader.next_record() of
\* the reader on top of the stack gave.
FileReaderIter_next_match(files, stk, pushed, popped, read) ==
    LET name == Last(stk)[1]
        stk1 == [stk EXCEPT ![Len(stk)][2] = read.self]
        fail(path, error) ==
            [item |-> Some(Err(FileReaderError_new(path, error))),
             stack |-> StackClear(stk1),
             pushes |-> pushed, pops |-> popped]
    IN  IF ~read.res.ok THEN fail(name, read.res.val)
        ELSE IF is_none(read.res.val)
        THEN LET stk2 == StackPop(stk1)
             IN  FileReaderIter_next(files, stk2, pushed,
                     Append(popped,
                         [depth |-> Len(stk1),
                          inner |-> Last(stk1)[2],
                          outer |-> IF stk2 = <<>> THEN None
                                    ELSE Some(Last(stk2)[2]),
                          npushes |-> Len(pushed)]))
        ELSE LET item == unwrap(read.res.val)
             IN  IF item.kind = "Record"
                 THEN [item |-> Some(Ok(item.record)), stack |-> stk1,
                       pushes |-> pushed, pops |-> popped]
                 ELSE IF ~item.path.utf8
                 THEN fail(name, "Illegal include file name")
                 ELSE LET path == Path_join(IncludeDir(stk1), item.path.comps)
                          opened == FileReader_open(files, path)
                      IN  IF ~opened.ok THEN fail(path, opened.val)
                          ELSE LET stk2 == StackPush(stk1, path,
                                           Reader_set_origin(opened.val,
                                                             item.origin))
                               IN  FileReaderIter_next(files, stk2,
                                       Append(pushed,
                                           [from |-> name,
                                            item |-> item,
                                            top |-> Last(stk2),
                                            depth |-> Len(stk2),
                                            outer |-> read.self]),
                                       popped)

\* One turn of the loop: the stack, the pushes and pops so far and what
\* next_record() gave are values by the time the loop body runs on them.
FileReaderIter_next(files, stk, pushed, popped) ==
    IF stk = <<>>
    THEN [item |-> None, stack |-> stk, pushes |-> pushed, pops |-> popped]
    ELSE TheOne({TheOne({FileReaderIter_next_match(files, s, pu, po, read) :
                             read \in {Reader_next_record(Last(s)[2])}}) :
                     s \in {stk}, pu \in {pushed}, po \in {popped}})

-----------------------------------------------------------------------------
(* Bounds and inputs *)

\* Labels below the root of the names given to add_zone and asked of find.
MaxNameLabels == 2
\* Calls of add_zone in one run.
MaxOps == 2
\* Calls of add_record and add_cut on one zone.
MaxZoneOps == 2
\* Labels appended to a name when every name below it is asked for.
MaxBelow == 2

\* Calls of build_child on one tree.
MaxTreeOps == 3

\* Entries of the master file given to one Reader.
MaxFileLen == 3

\* Calls of next_record on one Reader.
MaxReads == 5

\* Entries of the top-level master file given to FileReaderIter.
MaxTopLen == 3

\* Calls of next on one FileReaderIter.
MaxNexts == 6

\* Calls of next that the consumer makes after next returned None.
MaxAfterEnd == 2

SeqsUpTo(S, n) == UNION {[1..k -> S] : k \in 0..n}

StoreLabels == {Normal("a"), Normal("b")}
Names == {Absolute(labels) : labels \in SeqsUpTo(StoreLabels, MaxNameLabels)}
Classes == {"In", "Ch"}

\* The relative names given to Zone::add_record and Zone::add_cut, in display
\* order: the apex, a, *, a.a (which makes a an empty non-terminal when added
\* first), *.a (a wildcard below a), a.* (a child of a wildcard node) and a
\* bit label.
RelNames == {<<>>, <<Normal("a")>>, <<Wildcard>>,
             <<Normal("a"), Normal("a")>>, <<Wildcard, Normal("a")>>,
             <<Normal("a"), Wildcard>>, <<Bit(TRUE)>>}
Rtypes == {"A", "Txt"}
TtlInputs == {0, 3600, 7200}
DataInputs == {MasterRecordData("A", 1), MasterRecordData("A", 2),
               MasterRecordData("Txt", 1)}

\* The zones handed to add_zone: each is built from Zone::new() by the
\* add_record calls listed, all of which succeed.
ZoneRecipes ==
    << <<[name |-> <<>>, ttl |-> 3600, data |-> MasterRecordData("A", 1)]>>,
       <<[name |-> <<Normal("a")>>, ttl |-> 3600,
          data |-> MasterRecordData("A", 2)]>> >>

RECURSIVE BuildZone(_)
BuildZone(recipe) ==
    IF recipe = <<>>
    THEN Zone_new
    ELSE LET call == Last(recipe)
         IN  Zone_add_record(BuildZone(Front(recipe)),
                             call.name, call.ttl, call.data).zone

ZoneInput(rid) == BuildZone(ZoneRecipes[rid])

\* The zone names given to load_zone: a. and a.b.
LoadNames == {Absolute(<<Normal("a")>>), Absolute(<<Normal("a"), Normal("b")>>)}

OtherClass(class) == IF class = "In" THEN "Ch" ELSE "In"

\* The record streams given to load_zone(name, class, _): no record, records
\* of the zone (at the apex and below it, with equal and with different TTLs),
\* a record outside the zone, a record of another class, and streams that end
\* with the reader's error.
LoadStreams(name, class) ==
    LET apex(ttl, data) == Ok(MasterRecord(name, class, ttl, data))
        below == Ok(MasterRecord(Concat(<<Normal("a")>>, name), class, 3600,
                                 MasterRecordData("A", 2)))
        outside == Ok(MasterRecord(Absolute(<<Normal("q")>>), class, 3600,
                                   MasterRecordData("A", 1)))
        foreign == Ok(MasterRecord(name, OtherClass(class), 3600,
                                   MasterRecordData("Txt", 1)))
        A1 == MasterRecordData("A", 1)
        A2 == MasterRecordData("A", 2)
    IN  { <<>>,
          <<apex(3600, A1)>>,
          <<apex(3600, A1), below>>,
          <<apex(3600, A1), apex(3600, A2)>>,
          <<apex(3600, A1), apex(7200, A2)>>,
          <<outside>>,
          <<outside, apex(3600, A1)>>,
          <<foreign>>,
          <<Err("syntax")>>,
          <<apex(3600, A1), Err("syntax")>> }

-----------------------------------------------------------------------------
(* State machine *)

Store == [in_root |-> in_root, roots |-> roots]

Init ==
    /\ in_root = AuthoritativeZones_new.in_root
    /\ roots = AuthoritativeZones_new.roots
    /\ zone = Zone_new
    /\ last = [op |-> "new"]
    /\ installed = EmptyMap
    /\ inserted = EmptyMap
    /\ cuts = {}
    /\ nops = 0
    /\ tree = Node_new(None)
    /\ reader = [scanner |-> None, origin |-> None, ttl |-> None, last |-> None]
    /\ source = [file |-> <<>>, origin |-> None]
    /\ fs = EmptyMap
    /\ stack = <<>>
    /\ yielded = <<>>
    /\ pushes = <<>>
    /\ pops = <<>>

\* zones.add_zone(name, class, ZoneInput(rid))
AddZone(name, class, rid) ==
    /\ nops < MaxOps
    /\ LET res == add_zone(Store, name, class, ZoneInput(rid))
       IN  /\ in_root' = res.self.in_root
           /\ roots' = res.self.roots
           /\ last' = [op |-> "add_zone", name |-> name, class |-> class,
                       rid |-> rid, ok |-> res.ok, before |-> Store,
                       prev |-> IF <<class, name>> \in DOMAIN installed
                                THEN Some(installed[<<class, name>>])
                                ELSE None]
           /\ installed' = IF res.ok
                           THEN MapPut(installed, <<class, name>>, rid)
                           ELSE installed
    /\ nops' = nops + 1
    /\ UNCHANGED <<zoneVars, treeVars, readerVars, iterVars>>

\* zone.add_record(name, ttl, data)
AddRecord(name, ttl, data) ==
    /\ nops < MaxZoneOps
    /\ LET res == Zone_add_record(zone, name, ttl, data)
           key == <<name, rtype_of(data)>>
           sofar == IF key \in DOMAIN inserted THEN inserted[key] ELSE <<>>
       IN  /\ zone' = res.zone
           /\ last' = [op |-> "add_record", name |-> name, ttl |-> ttl,
                       data |-> data, ok |-> res.ok, before |-> zone]
           /\ inserted' = IF res.ok
                          THEN MapPut(inserted, key,
                                      Append(sofar, [ttl |-> ttl, data |-> data]))
                          ELSE inserted
    /\ nops' = nops + 1
    /\ UNCHANGED <<storeVars, cuts, treeVars, readerVars, iterVars>>

\* zone.add_cut(name)
AddCut(name) ==
    /\ nops < MaxZoneOps
    /\ LET res == Zone_add_cut(zone, name)
       IN  /\ zone' = res.zone
           /\ last' = [op |-> "add_cut", name |-> name, ok |-> res.ok,
                       before |-> zone]
           /\ cuts' = IF res.ok THEN cuts \cup {name} ELSE cuts
    /\ nops' = nops + 1
    /\ UNCHANGED <<storeVars, inserted, treeVars, readerVars, iterVars>>

\* The store: zones are installed with add_zone and looked up with find / query.
Next ==
    \E name \in Names, class \in Classes, rid \in DOMAIN ZoneRecipes :
        AddZone(name, class, rid)

Spec == Init /\ [][Next]_vars

\* One zone: built with add_record and add_cut, asked with Zone::query.
NextZone ==
    \/ \E name \in RelNames, ttl \in TtlInputs, data \in DataInputs :
           AddRecord(name, ttl, data)
    \/ \E name \in RelNames : AddCut(name)

SpecZone == Init /\ [][NextZone]_vars

\* zones.load_zone(name, class, records)
LoadZone(name, class, records) ==
    /\ nops < MaxOps
    /\ LET res == load_zone(Store, name, class, records)
       IN  /\ in_root' = res.self.in_root
           /\ roots' = res.self.roots
           /\ last' = [op |-> "load_zone", name |-> name, class |-> class,
                       records |-> records, ok |-> res.ok, before |-> Store]
    /\ nops' = nops + 1
    /\ UNCHANGED <<installed, zoneVars, treeVars, readerVars, iterVars>>

\* The store filled from record streams with load_zone.
NextLoad ==
    \E name \in LoadNames, class \in Classes :
        \E records \in LoadStreams(name, class) : LoadZone(name, class, records)

SpecLoad == Init /\ [][NextLoad]_vars

-----------------------------------------------------------------------------
(* Claims about AuthoritativeZones (checked under Spec) *)

\* m is a suffix of n (both absolute names in display order).
IsSuffix(m, n) ==
    /\ Len(m) <= Len(n)
    /\ SubSeq(n, Len(n) - Len(m) + 1, Len(n)) = m

\* The names asked of find and query: one label deeper than the apexes.
AskNames ==
    {Absolute(labels) : labels \in SeqsUpTo(StoreLabels, MaxNameLabels + 1)}

FindName(class, name) == find(Store, class, Reverse(labelettes(name)))

\* C1: when add_zone(n, c, z) has just succeeded, find(c, n.labelettes().rev())
\* returns Some((z, rest)) with that zone z and with rest yielding nothing.
C1_AddZoneThenFind ==
    (last.op = "add_zone" /\ last.ok) =>
        LET found == FindName(last.class, last.name)
        IN  /\ is_some(found)
            /\ unwrap(found).zone = ZoneInput(last.rid)
            /\ unwrap(found).iter = <<>>

\* The apexes installed in `class` that are suffixes of `name`.
InstalledSuffixes(class, name) ==
    {m \in Names : <<class, m>> \in DOMAIN installed /\ IsSuffix(m, name)}

\* C2: find(c, n) returns the zone installed in class c at the longest suffix of
\* n that has a zone installed, and None exactly when no suffix of n has one.
C2_BestApex ==
    \A class \in Classes, name \in AskNames :
        LET sufs == InstalledSuffixes(class, name)
            found == FindName(class, name)
        IN  IF sufs = {}
            THEN is_none(found)
            ELSE LET apex == CHOOSE m \in sufs : \A k \in sufs : Len(k) <= Len(m)
                 IN  /\ is_some(found)
                     /\ unwrap(found).zone = ZoneInput(installed[<<class, apex>>])

\* Every other zone of the class sits at a sibling or unrelated name.
OthersUnrelated(class, name) ==
    \A key \in DOMAIN installed :
        (key[1] = class /\ key[2] # name) =>
            ~IsSuffix(key[2], name) /\ ~IsSuffix(name, key[2])

\* The answer holds `data` in an authoritative RRset.
AnswersWith(answer, data) ==
    /\ is_some(answer)
    /\ unwrap(answer).tag = "Authoritative"
    /\ is_some(unwrap(answer).val)
    /\ \E i \in DOMAIN unwrap(unwrap(answer).val).data :
           unwrap(unwrap(answer).val).data[i] = data

\* C3: for a zone installed at apex n in class c that got a record of rtype T
\* at relative name r, with the other zones at sibling or unrelated names, query
\* for (r.n, T, c) returns Authoritative(Some(rrset)) with the record's data.
C3_QueryAnswersRecord ==
    \A key \in DOMAIN installed :
        OthersUnrelated(key[1], key[2]) =>
            \A i \in DOMAIN ZoneRecipes[installed[key]] :
                LET call == ZoneRecipes[installed[key]][i]
                IN  AnswersWith(query(Store, Question(Concat(call.name, key[2]),
                                                      rtype_of(call.data), key[1])),
                                call.data)

\* C10: add_zone(n, c, z2) on an apex (n, c) that holds z1 fails, leaves the
\* store unchanged, and find(c, n) still returns z1.
C10_AddZoneExists ==
    (last.op = "add_zone" /\ is_some(last.prev)) =>
        /\ ~last.ok
        /\ Store = last.before
        /\ LET found == FindName(last.class, last.name)
           IN  /\ is_some(found)
               /\ unwrap(found).zone = ZoneInput(unwrap(last.prev))

\* The part of C10 that does not go through find: the call fails and the store
\* is what it was.
AddZoneExistsFails ==
    (last.op = "add_zone" /\ is_some(last.prev)) =>
        ~last.ok /\ Store = last.before

-----------------------------------------------------------------------------
(* Claims about one Zone (checked under SpecZone) *)

\* The reference of the node of a relative name: its labelettes root-first.
RefOf(name) == Reverse(labelettes(name))

RECURSIVE Prefixes(_)
Prefixes(s) == IF s = <<>> THEN {<<>>} ELSE {s} \cup Prefixes(Front(s))

\* Every reference a node of the zone can have.
NodeRefs == UNION {Prefixes(RefOf(name)) : name \in RelNames}

\* The labels asked of Zone::query: those of the zone's names, a label no name
\* of the zone has, and a bit label no name has.
AskLabels == {Normal("a"), Wildcard, Normal("q"), Bit(TRUE), Bit(FALSE)}

\* The node of a relative name holds an entry of this variant.
HoldsVariant(z, ref, tag) ==
    /\ Node_has(z.data, ref)
    /\ is_some(Node_at(z.data, ref).value)
    /\ unwrap(Node_at(z.data, ref).value).tag = tag

\* The RRset of rtype at the node of `ref`, as an Option.
RRsetAt(z, ref, rtype) ==
    IF HoldsVariant(z, ref, "Authoritative")
    THEN Records_get(unwrap(Node_at(z.data, ref).value).val, rtype)
    ELSE None

\* The data of the successful insertions of a history entry, in order.
DataOf(ins) == [i \in DOMAIN ins |-> ins[i].data]

\* C4: for every node and rtype, all the records the RRset got were inserted
\* with one and the same TTL, the RRset's ttl (TTL 0 included).
C4_OneTtlPerRRset ==
    \A key \in DOMAIN inserted :
        LET rrset == RRsetAt(zone, RefOf(key[1]), key[2])
        IN  /\ is_some(rrset)
            /\ \A i \in DOMAIN inserted[key] :
                   inserted[key][i].ttl = RRset_ttl(unwrap(rrset))

\* The last call was an add_record that failed on an authoritative node, that
\* is, by its TTL.
FailedByTtl ==
    /\ last.op = "add_record"
    /\ ~last.ok
    /\ HoldsVariant(last.before, RefOf(last.name), "Authoritative")

\* C5: an add_record that fails by its TTL leaves the RRset as it was: the
\* same ttl and the same data, the data of the insertions that succeeded.
C5_TtlMismatchKeepsRRset ==
    FailedByTtl =>
        LET now == RRsetAt(zone, RefOf(last.name), rtype_of(last.data))
            before == RRsetAt(last.before, RefOf(last.name), rtype_of(last.data))
        IN  /\ is_some(before)
            /\ now = before
            /\ unwrap(now).data =
                   DataOf(inserted[<<last.name, rtype_of(last.data)>>])

\* C5's case: an insert with TTL 7200 failed on an RRset that got one record
\* with TTL 3600, and the RRset holds that one record.
C5_Witness ==
    /\ FailedByTtl
    /\ last.ttl = 7200
    /\ LET now == RRsetAt(zone, RefOf(last.name), rtype_of(last.data))
       IN  /\ is_some(now)
           /\ RRset_ttl(unwrap(now)) = 3600
           /\ Len(unwrap(now).data) = 1

\* The names strictly below a node: its reference followed by more labelettes.
Below == SeqsUpTo(AskLabels, MaxBelow) \ {<<>>}

\* A name of one or more ordinary labels: no `*`, no bit label, not the apex.
IsOrdinary(name) ==
    /\ name # <<>>
    /\ \A i \in DOMAIN name : name[i].kind = "Normal" /\ name[i] # Wildcard

\* C6: with a cut installed at relative name s, Zone::query for every name
\* strictly below s and every rtype returns Some(Entry::Cut(cut)) of that cut,
\* never None or an Authoritative entry. Stated for the delegation points of
\* ordinary labels, where the claim fails already.
C6_BelowCutIsCut ==
    \A s \in {name \in cuts : IsOrdinary(name)} :
        \A more \in Below, rtype \in Rtypes :
            LET answer == Zone_query(zone, RefOf(s) \o more, rtype)
            IN  /\ is_some(answer)
                /\ unwrap(answer).tag = "Cut"
                /\ unwrap(answer).val =
                       unwrap(Node_at(zone.data, RefOf(s)).value).val

\* What a node holds for rtype: Authoritative(records.get(rtype)), its Cut, or
\* Authoritative(None) for a node without an entry.
Holds(z, ref, rtype) ==
    IF HoldsVariant(z, ref, "Cut")
    THEN Cut(unwrap(Node_at(z.data, ref).value).val)
    ELSE Authoritative(RRsetAt(z, ref, rtype))

\* Two answers of Zone::query are the same.
SameEntry(e, f) == e.tag = f.tag /\ e.val = f.val

\* C7: if node p has a child `*` and no child for label b, Zone::query for b.p
\* and rtype T returns what the `*` node holds; the RRset it returns has the
\* data inserted at *.p.
C7_WildcardAnswers ==
    \A p \in NodeRefs, b \in AskLabels, rtype \in Rtypes :
        ( /\ Node_has(zone.data, p)
          /\ is_some(Node_get_child(Node_at(zone.data, p), Wildcard))
          /\ is_none(Node_get_child(Node_at(zone.data, p), b)) ) =>
            LET answer == Zone_query(zone, Append(p, b), rtype)
                star == <<Wildcard>> \o Reverse(p)
            IN  /\ is_some(answer)
                /\ SameEntry(unwrap(answer), Holds(zone, Append(p, Wildcard), rtype))
                /\ <<star, rtype>> \in DOMAIN inserted =>
                       /\ unwrap(answer).tag = "Authoritative"
                       /\ is_some(unwrap(answer).val)
                       /\ unwrap(unwrap(answer).val).data =
                              DataOf(inserted[<<star, rtype>>])

\* C7's case: a record was inserted at `*`, the apex has no child q, and the
\* query for q returns the wildcard's RRset.
C7_Witness ==
    /\ <<<<Wildcard>>, "A">> \in DOMAIN inserted
    /\ is_none(Node_get_child(zone.data, Normal("q")))
    /\ LET answer == Zone_query(zone, <<Normal("q")>>, "A")
       IN  /\ is_some(answer)
           /\ unwrap(answer).tag = "Authoritative"
           /\ is_some(unwrap(answer).val)
           /\ unwrap(unwrap(answer).val).data = DataOf(inserted[<<<<Wildcard>>, "A">>])

\* The node of `ref` exists and has no entry (an empty non-terminal).
IsEmptyNode(z, ref) == Node_has(z.data, ref) /\ is_none(Node_at(z.data, ref).value)

\* C8: an existing child wins over a sibling wildcard: when b.p is an empty
\* non-terminal and *.p holds records, the query for b.p returns
\* Authoritative(None); so does the query for p itself when p has no entry.
C8_ExactBeforeWildcard ==
    \A p \in NodeRefs, rtype \in Rtypes :
        HoldsVariant(zone, Append(p, Wildcard), "Authoritative") =>
            /\ \A b \in AskLabels \ {Wildcard} :
                   IsEmptyNode(zone, Append(p, b)) =>
                       LET answer == Zone_query(zone, Append(p, b), rtype)
                       IN  /\ is_some(answer)
                           /\ unwrap(answer).tag = "Authoritative"
                           /\ is_none(unwrap(answer).val)
            /\ IsEmptyNode(zone, p) =>
                   LET answer == Zone_query(zone, p, rtype)
                   IN  /\ is_some(answer)
                       /\ unwrap(answer).tag = "Authoritative"
                       /\ is_none(unwrap(answer).val)

\* C8's case: `*` holds an A record, a is an empty non-terminal made by the
\* insertion at a.a, and the query for a returns Authoritative(None).
C8_Witness ==
    /\ <<<<Wildcard>>, "A">> \in DOMAIN inserted
    /\ IsEmptyNode(zone, <<Normal("a")>>)
    /\ Node_has(zone.data, <<Normal("a"), Normal("a")>>)
    /\ Zone_query(zone, <<Normal("a")>>, "A") = Some(Authoritative(None))

\* C9: a node holds one variant and keeps it: add_record on a Cut fails,
\* add_cut on a node with authoritative records fails, every node that had an
\* entry before a call has an entry of the same variant after it, and no name
\* got both a cut and a record.
C9_OneVariantForever ==
    /\ last.op \in {"add_record", "add_cut"} =>
           /\ \A ref \in NodeRefs, tag \in {"Authoritative", "Cut"} :
                  HoldsVariant(last.before, ref, tag) => HoldsVariant(zone, ref, tag)
           /\ (last.op = "add_record"
                   /\ HoldsVariant(last.before, RefOf(last.name), "Cut")) => ~last.ok
           /\ (last.op = "add_cut"
                   /\ HoldsVariant(last.before, RefOf(last.name), "Authoritative"))
                  => ~last.ok
    /\ \A name \in cuts : HoldsVariant(zone, RefOf(name), "Cut")
    /\ \A key \in DOMAIN inserted :
           HoldsVariant(zone, RefOf(key[1]), "Authoritative")

\* C9's case: an add_record was refused by a node that is a Cut, and the node
\* is still that Cut.
C9_Witness ==
    /\ last.op = "add_record"
    /\ ~last.ok
    /\ last.name \in cuts
    /\ HoldsVariant(zone, RefOf(last.name), "Cut")

\* The labelettes given to build_child and get_child: two that differ only in
\* ASCII case, a third one, and a bit label.
TreeLabels == {Normal("a"), Normal("A"), Normal("b"), Bit(TRUE)}

\* The values insertop() returns for a new child.
TreeValues == {Some("x"), Some("y")}

\* The references to the nodes of `tree` at depth up to MaxTreeOps.
TreeRefs(node) == {ref \in SeqsUpTo(TreeLabels, MaxTreeOps) : Node_has(node, ref)}

\* node.build_child(labelette, || Ok(value)) on the node `ref` points to.
TreeBuildChild(ref, labelette, value) ==
    /\ nops < MaxTreeOps
    /\ tree' = Node_replace(tree, ref,
                   Node_build_child(Node_at(tree, ref), labelette, value))
    /\ last' = [op |-> "build_child", ref |-> ref, labelette |-> labelette,
                value |-> value, before |-> tree]
    /\ nops' = nops + 1
    /\ UNCHANGED <<storeVars, installed, zoneVars, readerVars, iterVars>>

\* The iterators given to build_node: no labelette, one, and two different
\* ones.
TreePaths == {<<>>, <<Normal("a")>>, <<Normal("a"), Normal("b")>>}

\* node.build_node(iter, |_| Ok(None)) on the node `ref` points to. The
\* terminal node returned is kept as its reference from the root of the tree.
TreeBuildNode(ref, iter) ==
    /\ nops < MaxTreeOps
    /\ LET built == Node_build_node(Node_at(tree, ref), iter)
       IN  /\ tree' = Node_replace(tree, ref, built.node)
           /\ last' = [op |-> "build_node", ref |-> ref, iter |-> iter,
                       terminal |-> ref \o built.ref, before |-> tree]
    /\ nops' = nops + 1
    /\ UNCHANGED <<storeVars, installed, zoneVars, readerVars, iterVars>>

\* One Node<V> grown with build_child and build_node.
NextTree ==
    \/ \E ref \in TreeRefs(tree), labelette \in TreeLabels, value \in TreeValues :
           TreeBuildChild(ref, labelette, value)
    \/ \E ref \in TreeRefs(tree), iter \in TreePaths : TreeBuildNode(ref, iter)

SpecTree == Init /\ [][NextTree]_vars

\* An include path: its components and whether its bytes are UTF-8.
IncludePath(comps, utf8) == [comps |-> comps, utf8 |-> utf8]

\* The entries of the master files given to a Reader: every kind of entry,
\* record lines whose owner, class and TTL are written out or inherited, and
\* a line the scanner fails on.
ReaderEntries ==
    { RawOrigin(Absolute(<<Normal("a")>>)),
      RawTtl(3600),
      RawInclude(IncludePath(<<"x">>, TRUE), None),
      RawControl,
      RawBlank,
      RawRecord(OwnerAbsolute(Absolute(<<Normal("b")>>)), Some("Ch"), Some(7200),
                MasterRecordData("A", 1)),
      RawRecord(OwnerRelative(<<Normal("w")>>), None, None, MasterRecordData("A", 2)),
      RawRecord(OwnerMissing, None, None, MasterRecordData("Txt", 1)),
      RawRecord(OwnerAt, Some("In"), None, MasterRecordData("A", 1)),
      RawBad }

ReaderFiles == SeqsUpTo(ReaderEntries, MaxFileLen)

\* Reader::new(scanner) over one master file.
ReaderNew(file) ==
    /\ last.op = "new"
    /\ reader' = Reader_new(file)
    /\ source' = [file |-> file, origin |-> None]
    /\ last' = [op |-> "Reader::new"]
    /\ UNCHANGED <<storeVars, installed, zoneVars, nops, treeVars, iterVars>>

\* reader.set_origin(origin) on the new Reader, as FileReaderIter does for an
\* included file.
ReaderSetOrigin(origin) ==
    /\ last.op = "Reader::new"
    /\ reader' = Reader_set_origin(reader, origin)
    /\ source' = [source EXCEPT !.origin = origin]
    /\ last' = [op |-> "set_origin"]
    /\ UNCHANGED <<storeVars, installed, zoneVars, nops, treeVars, iterVars>>

\* reader.next_record()
NextRecord ==
    /\ last.op \in {"Reader::new", "set_origin", "next_record"}
    /\ nops < MaxReads
    /\ LET res == Reader_next_record(reader)
       IN  /\ reader' = res.self
           /\ yielded' = Append(yielded, res.res)
           /\ last' = [op |-> "next_record", res |-> res.res, before |-> reader]
    /\ nops' = nops + 1
    /\ UNCHANGED <<storeVars, installed, zoneVars, treeVars, source, fs, stack,
                   pushes, pops>>

\* The origin given to set_origin.
OriginInputs == {Some(Absolute(<<Normal("o")>>))}

\* One Reader read to its end and beyond.
NextReader ==
    \/ \E file \in ReaderFiles : ReaderNew(file)
    \/ \E origin \in OriginInputs : ReaderSetOrigin(origin)
    \/ NextRecord

SpecReader == Init /\ [][NextReader]_vars

\* The files on disk: the top-level file z/top, the file z/sub/x it may
\* include as sub/x, the file z/sub/y that x may include as y, a file z/y of
\* the same name in the top-level directory, and a file /abs.
TopPath == <<"z", "top">>
XPath == <<"z", "sub", "x">>
YPath == <<"z", "sub", "y">>
YTopPath == <<"z", "y">>
AbsPath == <<"/", "abs">>
MissingPath == <<"z", "m">>

\* A record line with everything written out, told apart by its rdata.
FullRecord(label, rtype, rd) ==
    RawRecord(OwnerAbsolute(Absolute(<<Normal(label)>>)), Some("In"), Some(3600),
              MasterRecordData(rtype, rd))

\* The entries of the top-level file: records with a written and with an
\* inherited owner, $ORIGIN, $INCLUDE sub/x with an origin, and a line the
\* scanner fails on.
TopEntries ==
    { FullRecord("a", "A", 1),
      RawRecord(OwnerMissing, None, Some(3600), MasterRecordData("A", 2)),
      RawOrigin(Absolute(<<Normal("a")>>)),
      RawInclude(IncludePath(<<"sub", "x">>, TRUE), Some(Absolute(<<Normal("b")>>))),
      RawBad }

TopFiles == SeqsUpTo(TopEntries, MaxTopLen)

\* The contents of z/sub/x: nothing; one record; $ORIGIN, $TTL and a record
\* that change every carry-forward variable; a record at @; a nested include
\* of y followed by a record; an include of /abs; a scan error after a
\* record; an include of a missing file; an include whose path is not UTF-8.
XFiles ==
    { <<>>,
      <<FullRecord("c", "Txt", 1)>>,
      <<RawOrigin(Absolute(<<Normal("c")>>)), RawTtl(7200),
        RawRecord(OwnerRelative(<<Normal("w")>>), Some("Ch"), None,
                  MasterRecordData("Txt", 2))>>,
      <<RawRecord(OwnerAt, None, Some(7200), MasterRecordData("Txt", 3))>>,
      <<RawInclude(IncludePath(<<"y">>, TRUE), None), FullRecord("c", "Txt", 1)>>,
      <<RawInclude(IncludePath(AbsPath, TRUE), None)>>,
      <<FullRecord("c", "Txt", 1), RawBad>>,
      <<RawInclude(IncludePath(<<"m">>, TRUE), None)>>,
      <<RawInclude(IncludePath(<<"n">>, FALSE), None)>> }

World(top, x) ==
    (TopPath :> top) @@ (XPath :> x)
        @@ (YPath :> <<FullRecord("d", "A", 3)>>)
        @@ (YTopPath :> <<FullRecord("d", "A", 4)>>)
        @@ (AbsPath :> <<FullRecord("d", "A", 5)>>)

Worlds == {World(top, x) : top \in TopFiles, x \in XFiles}

\* FileReaderIter::new(path), with `world` the files on disk.
IterNew(world, path) ==
    /\ last.op = "new"
    /\ fs' = world
    /\ LET res == FileReaderIter_new(world, path)
       IN  /\ stack' = IF res.ok THEN res.val ELSE <<>>
           /\ last' = [op |-> "FileReaderIter::new", path |-> path, ok |-> res.ok]
    /\ UNCHANGED <<storeVars, installed, zoneVars, nops, treeVars, readerVars,
                   yielded, pushes, pops>>

\* iter.next()
IterNext ==
    /\ last.op = "next" \/ (last.op = "FileReaderIter::new" /\ last.ok)
    /\ nops < MaxNexts
    /\ LET res == FileReaderIter_next(fs, stack, pushes, pops)
       IN  /\ stack' = res.stack
           /\ pushes' = res.pushes
           /\ pops' = res.pops
           /\ yielded' = Append(yielded, res.item)
           /\ last' = [op |-> "next", item |-> res.item, before |-> stack]
    /\ nops' = nops + 1
    /\ UNCHANGED <<storeVars, installed, zoneVars, treeVars, readerVars, fs>>

\* One FileReaderIter drained.
NextIter ==
    \/ \E world \in Worlds, path \in {TopPath, MissingPath} : IterNew(world, path)
    \/ IterNext

SpecIter == Init /\ [][NextIter]_vars

\* How often next() has returned None.
EndsSeen == Cardinality({i \in DOMAIN yielded : is_none(yielded[i])})

\* The consumer has an open iterator and has not yet given up calling next():
\* it goes on until next() returns None, as the for loop of load_zone does,
\* and then calls it MaxAfterEnd - 1 times more.
Draining ==
    /\ last.op = "next" \/ (last.op = "FileReaderIter::new" /\ last.ok)
    /\ EndsSeen < MaxAfterEnd

\* iter.next() called by that consumer.
IterDrain ==
    /\ Draining
    /\ \E res \in {FileReaderIter_next(fs, stack, pushes, pops)} :
           /\ stack' = res.stack
           /\ pushes' = res.pushes
           /\ pops' = res.pops
           /\ yielded' = Append(yielded, res.item)
           /\ last' = [op |-> "next", item |-> res.item, before |-> stack]
    /\ nops' = nops + 1
    /\ UNCHANGED <<storeVars, installed, zoneVars, treeVars, readerVars, fs>>

\* The top-level files that are drained: an empty file; an include followed
\* by records; two includes; a scan error before an include; $ORIGIN before an
\* include; an include between records.
DrainTops ==
    LET inc == RawInclude(IncludePath(<<"sub", "x">>, TRUE),
                          Some(Absolute(<<Normal("b")>>)))
        rec == FullRecord("a", "A", 1)
        inh == RawRecord(OwnerMissing, None, Some(3600), MasterRecordData("A", 2))
    IN  { <<>>,
          <<inc, rec, inh>>,
          <<rec, inc, inc>>,
          <<rec, RawBad, inc>>,
          <<RawOrigin(Absolute(<<Normal("a")>>)), inc, inh>>,
          <<rec, inc, inh>> }

DrainWorlds == {World(top, x) : top \in DrainTops, x \in XFiles}

\* One FileReaderIter drained by a loop that keeps calling next().
NextDrain ==
    \/ \E world \in DrainWorlds, path \in {TopPath, MissingPath} :
           IterNew(world, path)
    \/ IterDrain

\* The loop of the consumer goes on while it is draining: its call of next()
\* is not postponed forever.
SpecDrain == Init /\ [][NextDrain]_vars /\ WF_vars(IterDrain)

-----------------------------------------------------------------------------
(* Claims about load_zone (checked under SpecLoad) *)

\* The stream yields at least one Err item.
HasErr(records) == \E i \in DOMAIN records : ~records[i].ok

\* The reference add_zone gives the apex node of `name` in its class tree.
ApexRef(name) ==
    Node_build_node(Node_new(None), Tail(Reverse(labelettes(name)))).ref

\* The value of the apex node of (class, name) in a store: None when the node
\* or the class tree is missing.
ApexValue(self, class, name) ==
    IF is_none(root(self, class)) THEN None
    ELSE IF ~Node_has(unwrap(root(self, class)), ApexRef(name)) THEN None
    ELSE Node_at(unwrap(root(self, class)), ApexRef(name)).value

InZone(records, i, name) ==
    records[i].ok /\ strip_suffix(records[i].val.owner, name).ok

\* The stream holds a record that produces a per-record error: an owner outside
\* the zone, or a TTL that differs from the TTL of an earlier record of the
\* same owner and rtype.
HasRecordError(records, name) ==
    \/ \E i \in DOMAIN records : records[i].ok /\ ~InZone(records, i, name)
    \/ \E i, j \in DOMAIN records :
           /\ i < j
           /\ InZone(records, i, name)
           /\ InZone(records, j, name)
           /\ records[i].val.owner = records[j].val.owner
           /\ rtype_of(records[i].val.rdata) = rtype_of(records[j].val.rdata)
           /\ records[i].val.ttl # records[j].val.ttl

\* C12: a stream with a record that produces a per-record error makes
\* load_zone fail and install nothing.
C12_RecordErrorRefusesLoad ==
    (last.op = "load_zone" /\ HasRecordError(last.records, last.name)) =>
        ~last.ok /\ Store = last.before

\* C13: a stream with a record whose class differs from the class argument is
\* refused, and the record is not answered from the zone of that class.
C13_ClassMismatchRefused ==
    last.op = "load_zone" =>
        \A i \in DOMAIN last.records :
            (last.records[i].ok /\ last.records[i].val.class # last.class) =>
                /\ ~last.ok
                /\ ~AnswersWith(query(Store, Question(last.records[i].val.owner,
                                          rtype_of(last.records[i].val.rdata),
                                          last.class)),
                                last.records[i].val.rdata)

\* The rdata of the stream's records with this owner and rtype, in order.
RECURSIVE StreamData(_, _, _)
StreamData(records, owner, rtype) ==
    IF records = <<>> THEN <<>>
    ELSE LET rest == StreamData(Tail(records), owner, rtype)
             record == Head(records)
         IN  IF /\ record.ok
                /\ record.val.owner = owner
                /\ rtype_of(record.val.rdata) = rtype
             THEN <<record.val.rdata>> \o rest
             ELSE rest

\* C14: after a successful load_zone of a stream without reader errors and
\* without per-record errors whose owners are all under the zone name, query(o, T, class) for every owner o and rtype
\* T of the stream returns Authoritative(Some(rrset)) with exactly the rdata of
\* the stream's records of o and T.
C14_LoadedRecordsAnswered ==
    ( /\ last.op = "load_zone"
      /\ last.ok
      /\ ~HasErr(last.records)
      /\ ~HasRecordError(last.records, last.name)
      /\ \A i \in DOMAIN last.records : InZone(last.records, i, last.name) ) =>
        \A i \in DOMAIN last.records :
            LET record == last.records[i].val
                answer == query(Store, Question(record.owner,
                                                rtype_of(record.rdata), last.class))
            IN  /\ is_some(answer)
                /\ unwrap(answer).tag = "Authoritative"
                /\ is_some(unwrap(answer).val)
                /\ unwrap(unwrap(answer).val).data =
                       StreamData(last.records, record.owner, rtype_of(record.rdata))

-----------------------------------------------------------------------------
(* Claims about Node and NodeChildren (checked under SpecTree) *)

\* ASCII case folding of the label bytes in use.
Fold(bytes) ==
    IF bytes = "A" THEN "a" ELSE IF bytes = "B" THEN "b" ELSE bytes

\* C15: child lookup and creation on Normal labels fold ASCII case: after
\* build_child(Normal(x)), get_child(Normal(y)) returns the child of x for
\* every y equal to x up to case, build_child(Normal(y)) on an existing child
\* of x changes nothing, and no node has two Normal children whose keys differ
\* only in case.
C15_NormalChildrenFoldCase ==
    /\ \A ref \in TreeRefs(tree) :
           \A x, y \in DOMAIN Node_at(tree, ref).children.normal :
               Fold(x) = Fold(y) => x = y
    /\ (last.op = "build_child" /\ last.labelette.kind = "Normal") =>
           LET node == Node_at(tree, last.ref)
               old == Node_at(last.before, last.ref)
           IN  /\ \A y \in {"a", "A", "b"} :
                      Fold(y) = Fold(last.labelette.bytes) =>
                          Node_get_child(node, Normal(y)) =
                              Node_get_child(node, last.labelette)
               /\ (\E x \in DOMAIN old.children.normal :
                       Fold(x) = Fold(last.labelette.bytes)) => tree = last.before

-----------------------------------------------------------------------------
(* Claims about Reader (checked under SpecReader) *)

\* C16: a scan error in Reader is sticky: the next_record that hits the error
\* returns it and drops the scanner, and every later next_record returns
\* Ok(None) and leaves the reader as it is.
C16_ScanErrorSticky ==
    /\ (last.op = "next_record" /\ ~last.res.ok) => is_none(reader.scanner)
    /\ \A i, j \in DOMAIN yielded :
           (i < j /\ ~yielded[i].ok) => yielded[j] = Ok(None)
    /\ (last.op = "next_record" /\ \E i \in 1..(Len(yielded) - 1) : ~yielded[i].ok) =>
           reader = last.before

\* C16's case: next_record returned a record, then an error, and was called
\* again on the reader without scanner.
C16_Witness ==
    /\ Len(yielded) >= 3
    /\ yielded[1].ok /\ is_some(yielded[1].val)
    /\ ~yielded[2].ok
    /\ last.op = "next_record"
    /\ is_none(last.before.scanner)
    /\ last.res = Ok(None)

-----------------------------------------------------------------------------
(* Claims about FileReaderIter (checked under SpecIter) *)

\* The item next() returned is Some(Err(_)).
IsErrItem(item) == is_some(item) /\ ~unwrap(item).ok

\* The item next() returned is Some(Ok(record)).
IsRecordItem(item) == is_some(item) /\ unwrap(item).ok

\* C17: FileReaderIter yields at most one error: the next() that returns
\* Some(Err(_)) leaves the stack empty, and every later next() returns None,
\* so no record of an outer file follows an error.
C17_OneErrorThenNone ==
    /\ (last.op = "next" /\ IsErrItem(last.item)) => stack = <<>>
    /\ \A i, j \in DOMAIN yielded :
           (i < j /\ IsErrItem(yielded[i])) => is_none(yielded[j])
    /\ Cardinality({i \in DOMAIN yielded : IsErrItem(yielded[i])}) <= 1

\* C17's case: the included file failed while the top-level file still had a
\* record to give, and next() was called again.
C17_Witness ==
    /\ last.op = "next"
    /\ is_none(last.item)
    /\ Len(fs[TopPath]) >= 2
    /\ Last(fs[TopPath]).kind = "Record"
    /\ \E i \in DOMAIN yielded :
           /\ IsErrItem(yielded[i])
           /\ i < Len(yielded)
           /\ unwrap(yielded[i]).val.path # TopPath

\* The push that a pop undoes: the latest push to the depth popped.
MatchingPushes(pop) ==
    {i \in 1..pop.npushes : pushes[i].depth = pop.depth}

MatchingPush(pop) ==
    CHOOSE i \in MatchingPushes(pop) : \A j \in MatchingPushes(pop) : j <= i

\* C18: when an included file is popped at its end, the including reader's
\* origin, default TTL and last (owner, class) are what they were when the
\* $INCLUDE entry was read.
C18_IncludeKeepsOuterState ==
    \A k \in DOMAIN pops :
        pops[k].depth > 1 =>
            /\ MatchingPushes(pops[k]) # {}
            /\ is_some(pops[k].outer)
            /\ LET atInclude == pushes[MatchingPush(pops[k])].outer
                   atPop == unwrap(pops[k].outer)
               IN  /\ atPop.origin = atInclude.origin
                   /\ atPop.ttl = atInclude.ttl
                   /\ atPop.last = atInclude.last

\* C18's case: an included file that ended with an origin, a default TTL and
\* a last owner all different from the including file's was popped.
C18_Witness ==
    \E k \in DOMAIN pops :
        /\ pops[k].depth = 2
        /\ is_some(pops[k].outer)
        /\ is_some(unwrap(pops[k].outer).last)
        /\ is_some(pops[k].inner.last)
        /\ pops[k].inner.origin # unwrap(pops[k].outer).origin
        /\ pops[k].inner.ttl # unwrap(pops[k].outer).ttl
        /\ pops[k].inner.last # unwrap(pops[k].outer).last

\* The depth-first inline expansion of the file read by `rdr` at `path`: its
\* records in file order, each $INCLUDE replaced by the expansion of the file
\* it names; the expansion ends with the first error.
RECURSIVE Expand(_, _, _)
Expand(files, path, rdr) ==
    LET read == Reader_next_record(rdr)
    IN  IF ~read.res.ok
        THEN <<Some(Err(FileReaderError_new(path, read.res.val)))>>
        ELSE IF is_none(read.res.val) THEN <<>>
        ELSE LET item == unwrap(read.res.val)
             IN  IF item.kind = "Record"
                 THEN <<Some(Ok(item.record))>> \o Expand(files, path, read.self)
                 ELSE IF ~item.path.utf8
                 THEN <<Some(Err(FileReaderError_new(path,
                                     "Illegal include file name")))>>
                 ELSE LET target == IF item.path.comps[1] = "/"
                                    THEN item.path.comps
                                    ELSE Front(path) \o item.path.comps
                      IN  IF target \notin DOMAIN files
                          THEN <<Some(Err(FileReaderError_new(target, "not found")))>>
                          ELSE LET included ==
                                       Expand(files, target,
                                              [Reader_new(files[target])
                                                   EXCEPT !.origin = item.origin])
                               IN  IF included # <<>> /\ IsErrItem(Last(included))
                                   THEN included
                                   ELSE included \o Expand(files, path, read.self)

\* What next() has returned so far, without the Nones.
RECURSIVE Items(_)
Items(s) ==
    IF s = <<>> THEN <<>>
    ELSE IF is_none(Head(s)) THEN Items(Tail(s))
    ELSE <<Head(s)>> \o Items(Tail(s))

IsPrefix(s, t) == Len(s) <= Len(t) /\ SubSeq(t, 1, Len(s)) = s

\* C19: the stream of FileReaderIter is the depth-first inline expansion of
\* the include tree: at every moment what has been yielded is a prefix of the
\* expansion of the top-level file, and all of it once next() returned None.
C19_DepthFirstExpansion ==
    last.op = "next" =>
        LET expansion == Expand(fs, TopPath, Reader_new(fs[TopPath]))
        IN  /\ IsPrefix(Items(yielded), expansion)
            /\ is_none(last.item) => Items(yielded) = expansion

\* C19's case: the top-level file gave a record, included x, which included y
\* and then gave a record, and gave a record after the include; all were
\* yielded and next() returned None.
C19_Witness ==
    /\ last.op = "next"
    /\ is_none(last.item)
    /\ Len(fs[TopPath]) = 3
    /\ fs[TopPath][1].kind = "Record"
    /\ fs[TopPath][2].kind = "Include"
    /\ fs[TopPath][3].kind = "Record"
    /\ Len(pushes) = 2
    /\ Len(Items(yielded)) = 4
    /\ \A i \in 1..4 : IsRecordItem(yielded[i])
    /\ yielded[2] = Some(Ok(MasterRecord(Absolute(<<Normal("d")>>), "In", 3600,
                                         MasterRecordData("A", 3))))

\* C20: the file an $INCLUDE opens is the include path resolved against the
\* directory of the file that holds the $INCLUDE entry (an absolute path is
\* opened as it is), also for nested includes, and the reader pushed is a new
\* reader of that file whose origin is the origin of the Include item.
C20_IncludeResolvedAgainstIncluder ==
    \A i \in DOMAIN pushes :
        LET push == pushes[i]
            target == IF push.item.path.comps[1] = "/"
                      THEN push.item.path.comps
                      ELSE Front(push.from) \o push.item.path.comps
        IN  /\ push.top[1] = target
            /\ push.top[2].origin = push.item.origin
            /\ push.top[2] = [Reader_new(fs[target]) EXCEPT !.origin = push.item.origin]

\* C20's case: z/top included sub/x with an origin, and z/sub/x included y,
\* which was opened as z/sub/y although z/y exists.
C20_Witness ==
    /\ \E i \in DOMAIN pushes :
           /\ pushes[i].from = TopPath
           /\ pushes[i].top[1] = XPath
           /\ is_some(pushes[i].top[2].origin)
    /\ \E i \in DOMAIN pushes :
           /\ pushes[i].depth = 3
           /\ pushes[i].from = XPath
           /\ pushes[i].top[1] = YPath
           /\ YTopPath \in DOMAIN fs

-----------------------------------------------------------------------------
(* Claims about the Reader's carry-forward state (checked under SpecReader) *)

\* No call of next_record has returned an error.
NoScanError == \A i \in DOMAIN yielded : yielded[i].ok

\* The entries of the file the scanner `scanner` has gone past.
ConsumedBy(scanner) ==
    SubSeq(source.file, 1, Len(source.file) - Len(unwrap(scanner)))

\* The positions of the entries of a kind in a sequence of entries.
EntriesOf(entries, kind) == {i \in DOMAIN entries : entries[i].kind = kind}

MaxOf(S) == CHOOSE i \in S : \A j \in S : j <= i

\* The origin in force after `entries`: the name of the latest $ORIGIN, else
\* the origin the reader started with.
OriginAfter(entries) ==
    IF EntriesOf(entries, "Origin") = {} THEN source.origin
    ELSE Some(entries[MaxOf(EntriesOf(entries, "Origin"))].name)

\* The default TTL in force after `entries`: the value of the latest $TTL.
TtlAfter(entries) ==
    IF EntriesOf(entries, "Ttl") = {} THEN None
    ELSE Some(entries[MaxOf(EntriesOf(entries, "Ttl"))].ttl)

\* The positions of the records in what next_record returned.
RecordsYielded(items) ==
    {i \in DOMAIN items :
        /\ items[i].ok
        /\ is_some(items[i].val)
        /\ unwrap(items[i].val).kind = "Record"}

\* (owner, class) of the latest record returned, as an Option.
LastAfter(items) ==
    IF RecordsYielded(items) = {} THEN None
    ELSE LET record == unwrap(items[MaxOf(RecordsYielded(items))].val).record
         IN  Some(<<record.owner, record.class>>)

\* C21: within one file the carry-forward state follows file order: as long as
\* no scan error occurred, the reader's origin is the name of the latest
\* $ORIGIN gone past (else its initial origin), its default TTL the value of
\* the latest $TTL (else unset) and its last the (owner, class) of the latest
\* record (else unset), whatever $INCLUDE, control and blank entries lie
\* between; and a record returned was resolved with the three values in force
\* before its line.
C21_CarryForwardInFileOrder ==
    (last.op = "next_record" /\ NoScanError) =>
        /\ reader.origin = OriginAfter(ConsumedBy(reader.scanner))
        /\ reader.ttl = TtlAfter(ConsumedBy(reader.scanner))
        /\ reader.last = LastAfter(yielded)
        /\ (is_some(last.res.val) /\ unwrap(last.res.val).kind = "Record") =>
               LET consumed == ConsumedBy(reader.scanner)
                   raw == Last(consumed)
                   earlier == Front(consumed)
                   before == LastAfter(Front(yielded))
                   record == unwrap(last.res.val).record
               IN  /\ raw.kind = "Record"
                   /\ record.rdata = raw.rdata
                   /\ is_none(raw.ttl) =>
                          TtlAfter(earlier) = Some(record.ttl)
                   /\ is_some(raw.ttl) => raw.ttl = Some(record.ttl)
                   /\ raw.owner.form = "at" =>
                          OriginAfter(earlier) = Some(record.owner)
                   /\ raw.owner.form = "relative" =>
                          /\ is_some(OriginAfter(earlier))
                          /\ record.owner =
                                 raw.owner.name \o unwrap(OriginAfter(earlier))
                   /\ raw.owner.form = "missing" =>
                          /\ is_some(before)
                          /\ record.owner = unwrap(before)[1]
                   /\ is_none(raw.class) =>
                          record.class = IF is_some(before)
                                         THEN unwrap(before)[2] ELSE "In"

\* C21's case: after $TTL 3600 and a blank or control entry, a record line
\* without TTL whose owner is relative to the reader's initial origin was
\* returned with ttl = 3600.
C21_Witness ==
    /\ last.op = "next_record"
    /\ NoScanError
    /\ is_some(source.origin)
    /\ Len(source.file) = 3
    /\ source.file[1] = RawTtl(3600)
    /\ source.file[2].kind \in {"Blank", "Control"}
    /\ source.file[3].kind = "Record"
    /\ source.file[3].owner.form = "relative"
    /\ is_some(last.res.val)
    /\ unwrap(last.res.val).kind = "Record"
    /\ unwrap(last.res.val).record.ttl = 3600
    /\ unwrap(last.res.val).record.owner =
           <<Normal("w")>> \o unwrap(source.origin)

-----------------------------------------------------------------------------
(* Claims about Node::build_node (checked under SpecTree) *)

\* C22: build_node(path_iter, insert) creates the chain in the iteration order
\* of path_iter: the terminal node returned is the node reached from the start
\* node with get_child along the labelettes of path_iter in order.
C22_BuildNodeInIterationOrder ==
    last.op = "build_node" =>
        /\ Node_has(tree, last.ref \o last.iter)
        /\ last.terminal = last.ref \o last.iter

-----------------------------------------------------------------------------
(* Claims about find's remaining labels and about classes (checked under Spec) *)

\* The labelettes of `name` below the apex `apex`, root-first.
BelowApex(name, apex) == Reverse(SubSeq(name, 1, Len(name) - Len(apex)))

\* C23: when find(c, n) returns Some((zone, rest)), the zone is one installed
\* in class c at a suffix of n, and rest yields exactly the labelettes of n
\* below that apex, root-first (none when n is the apex).
C23_FindRestBelowApex ==
    \A class \in Classes, name \in AskNames :
        LET found == FindName(class, name)
        IN  is_some(found) =>
                \E apex \in Names :
                    /\ <<class, apex>> \in DOMAIN installed
                    /\ ZoneInput(installed[<<class, apex>>]) = unwrap(found).zone
                    /\ IsSuffix(apex, name)
                    /\ unwrap(found).iter = BelowApex(name, apex)

\* The tree of a class in a store; a class without entry has the empty tree.
TreeOf(self, class) ==
    IF is_some(root(self, class)) THEN unwrap(root(self, class)) ELSE Node_new(None)

\* The store that holds the tree of `class` as its IN tree and nothing else.
AsIn(self, class) == [in_root |-> TreeOf(self, class), roots |-> EmptyMap]

\* C26: classes are independent and treated alike: add_zone(n, c, z) leaves
\* find and query of every other class as they were; add_zone and find on a
\* class give what they give on IN with the same tree; and find on a class
\* that never got a zone returns None.
C26_ClassesIndependentAndAlike ==
    /\ last.op = "add_zone" =>
           \A class \in Classes \ {last.class}, name \in AskNames :
               /\ FindName(class, name) =
                      find(last.before, class, Reverse(labelettes(name)))
               /\ \A rtype \in Rtypes :
                      query(Store, Question(name, rtype, class)) =
                          query(last.before, Question(name, rtype, class))
    /\ last.op = "add_zone" =>
           LET onIn == add_zone(AsIn(last.before, last.class), last.name, "In",
                                ZoneInput(last.rid))
           IN  /\ last.ok = onIn.ok
               /\ TreeOf(Store, last.class) = onIn.self.in_root
    /\ \A class \in Classes, name \in AskNames :
           /\ FindName(class, name) =
                  find(AsIn(Store, class), "In", Reverse(labelettes(name)))
           /\ (\A key \in DOMAIN installed : key[1] # class) =>
                  is_none(FindName(class, name))

\* C26's case: the first zone of class CH was added to a store that holds a
\* zone of class IN, and the zone of IN is still found.
C26_Witness ==
    /\ last.op = "add_zone"
    /\ last.ok
    /\ last.class = "Ch"
    /\ "Ch" \notin DOMAIN last.before.roots
    /\ \E name \in AskNames :
           /\ is_some(FindName("In", name))
           /\ is_some(FindName("Ch", name))
           /\ unwrap(FindName("In", name)).zone # unwrap(FindName("Ch", name)).zone

-----------------------------------------------------------------------------
(* Claims about the answers of Zone::query (checked under SpecZone) *)

\* The names asked of Zone::query, as the labelettes root-first.
AskIters == SeqsUpTo(AskLabels, MaxBelow)

\* The node at which Zone::query for `iter` ends, as a reference from `ref`:
\* the exact child at every level, else the `*` child of the level where the
\* exact child is missing; None when that level has no `*` child either.
RECURSIVE EndRef(_, _, _)
EndRef(node, iter, ref) ==
    IF iter = <<>> THEN Some(ref)
    ELSE IF is_some(Node_get_child(node, Head(iter)))
    THEN EndRef(unwrap(Node_get_child(node, Head(iter))), Tail(iter),
                Append(ref, Head(iter)))
    ELSE IF is_some(Node_get_child(node, Wildcard))
    THEN Some(Append(ref, Wildcard))
    ELSE None

\* C24: a Zone::query that ends at an Authoritative node returns
\* Authoritative(Some(rrset)) exactly when an add_record of that rtype
\* succeeded at that node, with rrset's data the rdata of the successful
\* insertions in insertion order, duplicates included, and Authoritative(None)
\* otherwise; Zone::query returns None only when at some level neither the
\* exact child nor a `*` child exists.
C24_QueryAnswersInsertions ==
    \A iter \in AskIters, rtype \in Rtypes :
        LET end == EndRef(zone.data, iter, <<>>)
            answer == Zone_query(zone, iter, rtype)
        IN  /\ is_none(answer) => is_none(end)
            /\ (is_some(end) /\ HoldsVariant(zone, unwrap(end), "Authoritative")) =>
                   LET key == <<Reverse(unwrap(end)), rtype>>
                   IN  /\ is_some(answer)
                       /\ unwrap(answer).tag = "Authoritative"
                       /\ (key \in DOMAIN inserted) =>
                              /\ is_some(unwrap(answer).val)
                              /\ unwrap(unwrap(answer).val).data =
                                     DataOf(inserted[key])
                       /\ (key \notin DOMAIN inserted) =>
                              is_none(unwrap(answer).val)

\* C24's case: the node of name a got the same rdata twice, and a query for a
\* returns both.
C24_Witness ==
    LET key == <<(<<Normal("a")>>), "A">>
        answer == Zone_query(zone, <<Normal("a")>>, "A")
    IN  /\ key \in DOMAIN inserted
        /\ Len(inserted[key]) = 2
        /\ inserted[key][1].data = inserted[key][2].data
        /\ is_some(answer)
        /\ unwrap(answer).tag = "Authoritative"
        /\ is_some(unwrap(answer).val)
        /\ Len(unwrap(unwrap(answer).val).data) = 2

\* C25: once Zone::query takes the `*` child of a node because the exact child
\* is missing, descent stops: the answer is the entry of that `*` node for the
\* rtype, however many labelettes of the name are left, and no child of the
\* `*` node is looked at.
C25_WildcardStopsDescent ==
    \A iter \in AskIters, rtype \in Rtypes :
        \A k \in DOMAIN iter :
            LET parent == SubSeq(iter, 1, k - 1)
            IN  ( /\ Node_has(zone.data, parent)
                  /\ ~Node_has(zone.data, Append(parent, iter[k]))
                  /\ Node_has(zone.data, Append(parent, Wildcard)) ) =>
                    Zone_query(zone, iter, rtype) =
                        Zone_answer(Node_at(zone.data, Append(parent, Wildcard)),
                                    rtype)

\* C25's case: the `*` node has a child a with a record; the query for a.q
\* takes `*` for the missing q and answers from the `*` node, not from its
\* child a.
C25_Witness ==
    /\ Node_has(zone.data, <<Wildcard, Normal("a")>>)
    /\ ~Node_has(zone.data, <<Normal("q")>>)
    /\ \E rtype \in Rtypes :
           /\ Zone_answer(Node_at(zone.data, <<Wildcard, Normal("a")>>), rtype)
                  # Zone_answer(Node_at(zone.data, <<Wildcard>>), rtype)
           /\ Zone_query(zone, <<Normal("q"), Normal("a")>>, rtype)
                  = Zone_answer(Node_at(zone.data, <<Wildcard>>), rtype)

\* C27: a Zone::add_record or Zone::add_cut that fails leaves the whole zone
\* tree as it was: no node is created, no value and no RRset changes, and
\* every Zone::query answers as before.
C27_FailedAddChangesNothing ==
    (last.op \in {"add_record", "add_cut"} /\ ~last.ok) =>
        /\ zone = last.before
        /\ \A ref \in NodeRefs :
               Node_has(zone.data, ref) <=> Node_has(last.before.data, ref)
        /\ \A iter \in AskIters, rtype \in Rtypes :
               Zone_query(zone, iter, rtype) = Zone_query(last.before, iter, rtype)

\* C27's case: an add_cut failed on a node below the apex that holds records,
\* and the node still holds them.
C27_Witness ==
    /\ last.op = "add_cut"
    /\ ~last.ok
    /\ last.name # <<>>
    /\ HoldsVariant(last.before, RefOf(last.name), "Authoritative")
    /\ HoldsVariant(zone, RefOf(last.name), "Authoritative")
    /\ \E rtype \in Rtypes : is_some(RRsetAt(zone, RefOf(last.name), rtype))

-----------------------------------------------------------------------------
(* Claims about the termination of FileReaderIter (checked under SpecDrain) *)

\* The file an Include entry of the file at `path` names, as FileReaderIter
\* resolves it.
IncludeTarget(path, entry) ==
    IF entry.path.comps[1] = "/" THEN entry.path.comps
    ELSE Front(path) \o entry.path.comps

\* The files that the file at `path` includes and that exist.
IncludedBy(files, path) ==
    {IncludeTarget(path, files[path][i]) :
        i \in {j \in DOMAIN files[path] : /\ files[path][j].kind = "Include"
                                          /\ files[path][j].path.utf8}}
        \cap DOMAIN files

\* The number of includes on the longest include chain that starts at `path`.
RECURSIVE LongestChain(_, _)
LongestChain(files, path) ==
    IF IncludedBy(files, path) = {} THEN 0
    ELSE LET lens == {LongestChain(files, p) : p \in IncludedBy(files, path)}
         IN  1 + MaxOf(lens)

\* C28: over finite files without include cycle, iterating a FileReaderIter
\* terminates: once the iterator is open, a consumer that keeps calling next()
\* comes to a call that returns None with the stack empty, and from then on
\* every call returns None and the stack stays empty; and the stack is never
\* deeper than the longest include chain plus one.
C28_IterationTerminates ==
    /\ (last.op = "FileReaderIter::new" /\ last.ok)
           ~> [](last.op = "next" /\ is_none(last.item) /\ stack = <<>>)
    /\ [](fs # EmptyMap => Len(stack) <= LongestChain(fs, TopPath) + 1)

\* C28's case: a top-level file with three entries that includes x, which
\* includes y, was read to its end with the stack three deep on the way, and
\* next() was called again after it had returned None.
C28_Witness ==
    /\ last.op = "next"
    /\ is_none(last.item)
    /\ stack = <<>>
    /\ EndsSeen = 2
    /\ Len(fs[TopPath]) = 3
    /\ LongestChain(fs, TopPath) = 2
    /\ \E i \in DOMAIN pushes : pushes[i].depth = 3
    /\ \A i \in DOMAIN yielded : ~IsErrItem(yielded[i])

====
